---- MODULE Spec2Model ----
(***************************************************************************)
(* A model of extract_data (src/app.py), the log extractor of the CAN bus  *)
(* data plotter.  Text is modelled at character level: a string is a       *)
(* sequence of one-character strings, so that the three regular            *)
(* expressions, str.split, int(b, 16), str.replace and float() are         *)
(* computed as the code computes them.  A line is modelled without its     *)
(* line terminator; the operators nevertheless treat "\n" as the regular   *)
(* expressions do.  Floating point values are modelled as exact decimals   *)
(* (mantissa, power of ten); binary rounding and overflow to infinity are  *)
(* outside the model.  Text is ASCII.                                      *)
(***************************************************************************)
EXTENDS Integers, Sequences, FiniteSets, TLC

VARIABLES file, pc, i, current_id, data, prov, err, text, stripped

vars == <<file, pc, i, current_id, data, prov, err, text, stripped>>

(***************************************************************************)
(* Bounds                                                                  *)
(***************************************************************************)
MaxLines == 4

MaxTextLen == 4

(***************************************************************************)
(* Characters                                                              *)
(***************************************************************************)
Digits == {"0", "1", "2", "3", "4", "5", "6", "7", "8", "9"}

HexLower == <<"0", "1", "2", "3", "4", "5", "6", "7", "8", "9", "a", "b", "c", "d", "e", "f">>

HexUpper == <<"0", "1", "2", "3", "4", "5", "6", "7", "8", "9", "A", "B", "C", "D", "E", "F">>

HexDigits == {HexLower[k] : k \in 1..16} \cup {HexUpper[k] : k \in 1..16}

LowerSeq == <<"a", "b", "c", "d", "e", "f", "g", "h", "i", "j", "k", "l", "m", "n", "o", "p", "q", "r", "s", "t", "u", "v", "w", "x", "y", "z">>

UpperSeq == <<"A", "B", "C", "D", "E", "F", "G", "H", "I", "J", "K", "L", "M", "N", "O", "P", "Q", "R", "S", "T", "U", "V", "W", "X", "Y", "Z">>

LowerLetters == {LowerSeq[k] : k \in 1..26}

UpperLetters == {UpperSeq[k] : k \in 1..26}

WordChars == LowerLetters \cup UpperLetters \cup Digits \cup {"_"}

\* The control characters VT (0x0b), FS (0x1c), GS (0x1d), RS (0x1e) and
\* US (0x1f), each as one pseudo-character.
VT == "<VT>"

FS == "<FS>"

GS == "<GS>"

RS == "<RS>"

US == "<US>"

\* what \s of the patterns matches and what str.split() splits on
Whitespace == {" ", "\t", "\n", "\r", "\f", VT, FS, GS, RS, US}

\* what float() ignores around a number
FloatWhitespace == {" ", "\t", "\n", "\r", "\f", VT}

\* A byte that can occur in no UTF-8 encoding (0xFF), as one pseudo-character.
InvalidByte == "<FF>"

None == <<>>

EmptyMap == [x \in {} |-> <<>>]

(***************************************************************************)
(* String helpers                                                          *)
(***************************************************************************)
Min(S) == CHOOSE x \in S : \A y \in S : x <= y

StartsWithAt(s, p, pat) ==
    /\ p >= 1
    /\ p + Len(pat) - 1 <= Len(s)
    /\ SubSeq(s, p, p + Len(pat) - 1) = pat

\* first index >= q whose character is outside Class (Len(s)+1 when none)
RunEnd(s, q, Class) ==
    Min({k \in q..(Len(s) + 1) : k = Len(s) + 1 \/ s[k] \notin Class})

SkipWs(s, q) == RunEnd(s, q, Whitespace)

\* first index >= q holding a newline (Len(s)+1 when none): where ".*" stops
DotStarEnd(s, q) ==
    Min({k \in q..(Len(s) + 1) : k = Len(s) + 1 \/ s[k] = "\n"})

Contains(s, pat) == \E p \in 1..Len(s) : StartsWithAt(s, p, pat)

RECURSIVE replace(_, _)
\* str.replace(old, ''): non-overlapping occurrences, left to right, one pass
replace(s, old) ==
    IF Len(s) < Len(old) THEN s
    ELSE IF StartsWithAt(s, 1, old)
         THEN replace(SubSeq(s, Len(old) + 1, Len(s)), old)
         ELSE <<Head(s)>> \o replace(Tail(s), old)

RECURSIVE split(_)
\* str.split(): the maximal runs of non-whitespace characters
split(s) ==
    LET a == SkipWs(s, 1)
    IN IF a > Len(s) THEN <<>>
       ELSE LET b == Min({k \in a..(Len(s) + 1) : k = Len(s) + 1 \/ s[k] \in Whitespace})
            IN <<SubSeq(s, a, b - 1)>> \o split(SubSeq(s, b, Len(s)))

\* the text float() parses: leading and trailing FloatWhitespace removed
strip(s) ==
    LET a == RunEnd(s, 1, FloatWhitespace)
    IN IF a > Len(s) THEN <<>>
       ELSE LET b == CHOOSE k \in a..Len(s) :
                        /\ s[k] \notin FloatWhitespace
                        /\ \A j \in (k + 1)..Len(s) : s[j] \in FloatWhitespace
            IN SubSeq(s, a, b)

(***************************************************************************)
(* The three patterns                                                      *)
(***************************************************************************)
IdPrefix == <<"I", "D", ":">>

DataBytesPrefix == <<"D", "a", "t", "a", " ", "B", "y", "t", "e", "s", ":">>

\* the reserved measurement name of the byte-vector channel
DataBytesName == <<"D", "a", "t", "a", " ", "B", "y", "t", "e", "s">>

IdAt(line, p) ==
    /\ StartsWithAt(line, p, IdPrefix)
    /\ LET q == SkipWs(line, p + 3)
       IN /\ StartsWithAt(line, q, <<"0", "x">>)
          /\ q + 2 <= Len(line)
          /\ line[q + 2] \in HexDigits

\* can_id_pattern.search(line): None, or group(1) of the leftmost match
can_id_search(line) ==
    LET starts == {k \in 1..Len(line) : IdAt(line, k)}
    IN IF starts = {} THEN None
       ELSE LET q == SkipWs(line, Min(starts) + 3)
            IN SubSeq(line, q, RunEnd(line, q + 2, HexDigits) - 1)

\* data_bytes_pattern.search(line)
data_bytes_search(line) ==
    LET starts == {k \in 1..Len(line) : StartsWithAt(line, k, DataBytesPrefix)}
    IN IF starts = {} THEN [matched |-> FALSE, g1 |-> <<>>]
       ELSE LET q == SkipWs(line, Min(starts) + Len(DataBytesPrefix))
            IN [matched |-> TRUE, g1 |-> SubSeq(line, q, DotStarEnd(line, q) - 1)]

MeasAt(line, p) ==
    /\ line[p] \in WordChars
    /\ LET r == RunEnd(line, p, WordChars)
       IN r <= Len(line) /\ line[r] = ":"

\* measurement_pattern.search(line)
measurement_search(line) ==
    LET starts == {k \in 1..Len(line) : MeasAt(line, k)}
    IN IF starts = {} THEN [matched |-> FALSE, key |-> <<>>, value |-> <<>>]
       ELSE LET r == RunEnd(line, Min(starts), WordChars)
                q == SkipWs(line, r + 1)
            IN [matched |-> TRUE, key |-> SubSeq(line, Min(starts), r - 1),
                value |-> SubSeq(line, q, DotStarEnd(line, q) - 1)]

(***************************************************************************)
(* int(b, 16)                                                              *)
(***************************************************************************)
HexDigitVal(c) == CHOOSE k \in 0..15 : HexLower[k + 1] = c \/ HexUpper[k + 1] = c

RECURSIVE HexValue(_)
HexValue(ds) ==
    IF ds = <<>> THEN 0
    ELSE HexValue(SubSeq(ds, 1, Len(ds) - 1)) * 16 + HexDigitVal(ds[Len(ds)])

RemoveUnderscores(s) == SelectSeq(s, LAMBDA c : c # "_")

\* hexadecimal digits with single underscores between them
HexBodyOk(s3) ==
    /\ Len(s3) >= 1
    /\ \A k \in 1..Len(s3) : s3[k] \in HexDigits \cup {"_"}
    /\ s3[1] # "_"
    /\ s3[Len(s3)] # "_"
    /\ \A k \in 1..(Len(s3) - 1) : ~(s3[k] = "_" /\ s3[k + 1] = "_")

\* the text after the sign: an optional 0x/0X prefix, which one underscore
\* may follow, then the digits
HexUnsigned(s1, neg) ==
    LET hasPrefix == Len(s1) >= 2 /\ s1[1] = "0" /\ s1[2] \in {"x", "X"}
        s2 == IF hasPrefix THEN SubSeq(s1, 3, Len(s1)) ELSE s1
        s3 == IF hasPrefix /\ s2 # <<>> /\ s2[1] = "_" THEN Tail(s2) ELSE s2
    IN IF HexBodyOk(s3)
       THEN [ok |-> TRUE,
             v |-> IF neg THEN 0 - HexValue(RemoveUnderscores(s3))
                          ELSE HexValue(RemoveUnderscores(s3))]
       ELSE [ok |-> FALSE, v |-> 0]

\* int(tok, 16).  ok = FALSE stands for ValueError.
int16(tok) ==
    IF tok # <<>> /\ tok[1] \in {"+", "-"}
    THEN HexUnsigned(Tail(tok), tok[1] = "-")
    ELSE HexUnsigned(tok, FALSE)

\* [int(b, 16) for b in data_bytes.split()]
parse_bytes(g1) ==
    LET toks == split(g1)
    IN [ok |-> \A k \in 1..Len(toks) : int16(toks[k]).ok,
        vals |-> [k \in 1..Len(toks) |-> int16(toks[k]).v]]

(***************************************************************************)
(* float(s)                                                                *)
(***************************************************************************)
DecDigits == <<"0", "1", "2", "3", "4", "5", "6", "7", "8", "9">>

DecDigitVal(c) == CHOOSE k \in 0..9 : DecDigits[k + 1] = c

RECURSIVE DecValue(_)
DecValue(ds) ==
    IF ds = <<>> THEN 0
    ELSE DecValue(SubSeq(ds, 1, Len(ds) - 1)) * 10 + DecDigitVal(ds[Len(ds)])

RECURSIVE Normalise(_, _)
\* one representative per decimal value: mantissa not divisible by ten
Normalise(m, e) ==
    IF m = 0 THEN [kind |-> "num", m |-> 0, e |-> 0]
    ELSE IF m % 10 = 0 THEN Normalise(m \div 10, e + 1)
    ELSE [kind |-> "num", m |-> m, e |-> e]

LowerOf(c) ==
    IF c \in UpperLetters
    THEN LowerSeq[CHOOSE k \in 1..26 : UpperSeq[k] = c]
    ELSE c

Lower(s) == [k \in 1..Len(s) |-> LowerOf(s[k])]

\* the value of intd.fracd * 10^(exponent), where b[1..ipEnd-1] are the
\* integer digits, b[fStart..fEnd-1] the fraction digits and expd the
\* exponent digits
DecimalValue(b, neg, ipEnd, fStart, fEnd, eNeg, expd) ==
    LET mag == DecValue(SubSeq(b, 1, ipEnd - 1) \o SubSeq(b, fStart, fEnd - 1))
        ex == (IF eNeg THEN 0 - DecValue(expd) ELSE DecValue(expd)) - (fEnd - fStart)
    IN Normalise(IF neg THEN 0 - mag ELSE mag, ex)

\* the optional exponent e[sign]digits, which must end the text
ParseExponent(b, neg, ipEnd, fStart, fEnd) ==
    IF (ipEnd - 1) + (fEnd - fStart) < 1 THEN [ok |-> FALSE, val |-> None]
    ELSE IF fEnd = Len(b) + 1
    THEN [ok |-> TRUE, val |-> DecimalValue(b, neg, ipEnd, fStart, fEnd, FALSE, <<>>)]
    ELSE IF b[fEnd] \notin {"e", "E"} THEN [ok |-> FALSE, val |-> None]
    ELSE LET signed == fEnd + 1 <= Len(b) /\ b[fEnd + 1] \in {"+", "-"}
             eStart == IF signed THEN fEnd + 2 ELSE fEnd + 1
             eEnd == RunEnd(b, eStart, Digits)
         IN IF eEnd > eStart /\ eEnd = Len(b) + 1
            THEN [ok |-> TRUE,
                  val |-> DecimalValue(b, neg, ipEnd, fStart, fEnd,
                                       signed /\ b[fEnd + 1] = "-",
                                       SubSeq(b, eStart, eEnd - 1))]
            ELSE [ok |-> FALSE, val |-> None]

\* digits[.digits][e[sign]digits] with at least one digit before the exponent
ParseDecimal(b, neg) ==
    LET ipEnd == RunEnd(b, 1, Digits)
    IN IF ipEnd <= Len(b) /\ b[ipEnd] = "."
       THEN ParseExponent(b, neg, ipEnd, ipEnd + 1, RunEnd(b, ipEnd + 1, Digits))
       ELSE ParseExponent(b, neg, ipEnd, ipEnd, ipEnd)

\* the text after the sign: inf, infinity or nan in any case, or a decimal
ParseUnsigned(b, neg) ==
    IF Lower(b) \in {<<"i", "n", "f">>, <<"i", "n", "f", "i", "n", "i", "t", "y">>}
    THEN [ok |-> TRUE, val |-> [kind |-> "inf", neg |-> neg]]
    ELSE IF Lower(b) = <<"n", "a", "n">>
    THEN [ok |-> TRUE, val |-> [kind |-> "nan"]]
    ELSE ParseDecimal(b, neg)

\* every underscore stands between two decimal digits
UnderscoresOk(t) ==
    \A k \in 1..Len(t) : t[k] = "_" =>
        /\ k > 1 /\ k < Len(t)
        /\ t[k - 1] \in Digits /\ t[k + 1] \in Digits

\* float(s): surrounding whitespace ignored, single underscores between
\* digits ignored, optional sign.  ok = FALSE stands for ValueError.
float_parse(s) ==
    LET u == RemoveUnderscores(strip(s))
    IN IF ~UnderscoresOk(strip(s)) THEN [ok |-> FALSE, val |-> None]
       ELSE IF u # <<>> /\ u[1] \in {"+", "-"}
       THEN ParseUnsigned(Tail(u), u[1] = "-")
       ELSE ParseUnsigned(u, FALSE)

(***************************************************************************)
(* Unit stripping and the entries the two data branches append             *)
(***************************************************************************)
\* a plausible slip: the ampere suffix is not removed
strip_units_keepA(value) ==
    replace(replace(replace(value, <<"r", "p", "m">>), <<"d", "e", "g">>), <<"N", "m">>)

\* value.replace('A', '').replace('rpm', '').replace('deg', '').replace('Nm', '')
strip_units(value) ==
    replace(replace(replace(replace(value, <<"A">>), <<"r", "p", "m">>),
                    <<"d", "e", "g">>), <<"N", "m">>)

\* a plausible slip: the stripped text is stored when float() fails
MeasEntry_stripped(value) ==
    LET f == float_parse(strip_units(value))
    IN IF f.ok THEN f.val ELSE [kind |-> "str", s |-> strip_units(value)]

\* the value appended by the measurement branch
MeasEntry(value) ==
    LET f == float_parse(strip_units(value))
    IN IF f.ok THEN f.val ELSE [kind |-> "str", s |-> value]

\* a plausible slip: the captured text is stored unparsed
BytesEntry_raw(g1) == [kind |-> "str", s |-> g1]

\* the value appended by the byte-vector branch
BytesEntry(g1) == [kind |-> "bytes", b |-> parse_bytes(g1).vals]

(***************************************************************************)
(* The dataset: defaultdict(lambda: defaultdict(list))                     *)
(***************************************************************************)
\* a plausible slip: plain dictionaries, an append to a missing key is lost
Put_noVivify(d, id, key, v) ==
    IF id \in DOMAIN d /\ key \in DOMAIN d[id]
    THEN [d EXCEPT ![id] = [@ EXCEPT ![key] = Append(@, v)]]
    ELSE d

\* a plausible slip: assignment instead of append
Put_overwrite(d, id, key, v) ==
    LET inner == IF id \in DOMAIN d THEN d[id] ELSE EmptyMap
        inner2 == [k \in DOMAIN inner \cup {key} |->
                      IF k = key THEN <<v>> ELSE inner[k]]
    IN [j \in DOMAIN d \cup {id} |-> IF j = id THEN inner2 ELSE d[j]]

\* data[id][key].append(v): both levels are created on first access
Put(d, id, key, v) ==
    LET inner == IF id \in DOMAIN d THEN d[id] ELSE EmptyMap
        ser == IF key \in DOMAIN inner THEN inner[key] ELSE <<>>
        inner2 == [k \in DOMAIN inner \cup {key} |->
                      IF k = key THEN Append(ser, v) ELSE inner[k]]
    IN [j \in DOMAIN d \cup {id} |-> IF j = id THEN inner2 ELSE d[j]]

(***************************************************************************)
(* The loop body: which branch handles a line                              *)
(***************************************************************************)
\* a plausible slip: the generic pattern is tried before the byte-vector one
Branch_measFirst(cur, line) ==
    IF can_id_search(line) # None THEN "id"
    ELSE IF measurement_search(line).matched /\ cur # None THEN "meas"
    ELSE IF data_bytes_search(line).matched /\ cur # None THEN "bytes"
    ELSE "skip"

\* a plausible slip: the byte-vector branch does not test current_id
Branch_noIdGuard(cur, line) ==
    IF can_id_search(line) # None THEN "id"
    ELSE IF data_bytes_search(line).matched THEN "bytes"
    ELSE IF measurement_search(line).matched /\ cur # None THEN "meas"
    ELSE "skip"

\* identifier, then byte vector, then generic measurement; None is falsy
Branch(cur, line) ==
    IF can_id_search(line) # None THEN "id"
    ELSE IF data_bytes_search(line).matched /\ cur # None THEN "bytes"
    ELSE IF measurement_search(line).matched /\ cur # None THEN "meas"
    ELSE "skip"

\* a plausible slip: only the first identifier is kept
SetCurrentId_first(cur, captured) == IF cur = None THEN captured ELSE cur

\* current_id = id_match.group(1)
SetCurrentId(cur, captured) == captured

\* bytes.decode('utf-8') succeeds
Utf8Decodable(f) ==
    \A k \in 1..Len(f) : \A n \in 1..Len(f[k]) : f[k][n] # InvalidByte

(***************************************************************************)
(* Inputs                                                                  *)
(***************************************************************************)
Line_Id1 == <<"I", "D", ":", " ", "0", "x", "1">>

Line_Id2Bytes == <<"I", "D", ":", " ", "0", "x", "2", " ", "D", "a", "t", "a", " ", "B", "y", "t", "e", "s", ":", " ", "0", "1">>

Line_Speed == <<"S", "p", "e", "e", "d", ":", " ", "4", "5", ".", "2", "r", "p", "m">>

Line_Status == <<"S", "t", "a", "t", "u", "s", ":", " ", "S", "T", "A", "T", "U", "S", "_", "O", "K">>

Line_Bytes == <<"D", "a", "t", "a", " ", "B", "y", "t", "e", "s", ":", " ", "0", "A", " ", "1", "B", " ", "F", "F">>

Line_BadHex == <<"D", "a", "t", "a", " ", "B", "y", "t", "e", "s", ":", " ", "0", "G">>

Line_Wide == <<"D", "a", "t", "a", " ", "B", "y", "t", "e", "s", ":", " ", "1", "F", "F", " ", "-", "1">>

Line_Plain == <<"h", "e", "l", "l", "o">>

Line_BadUtf8 == <<"T", ":", " ", "<FF>">>

LineSet == {Line_Id1, Line_Id2Bytes, Line_Speed, Line_Status, Line_Bytes,
            Line_BadHex, Line_Wide, Line_Plain, Line_BadUtf8}

StripChars == {"A", "r", "p", "m", "d", "e", "g", "N", "1", "."}

(***************************************************************************)
(* extract_data as a state machine                                         *)
(***************************************************************************)
Init ==
    /\ file = <<>>
    /\ pc = "upload"
    /\ i = 1
    /\ current_id = None
    /\ data = EmptyMap
    /\ prov = EmptyMap
    /\ err = FALSE
    /\ text = <<>>
    /\ stripped = <<>>

\* the environment: the uploaded file grows by one line
Upload(l) ==
    /\ pc = "upload"
    /\ Len(file) < MaxLines
    /\ file' = Append(file, l)
    /\ UNCHANGED <<pc, i, current_id, data, prov, err, text, stripped>>

\* file.read().decode('utf-8'), readlines(), current_id = None
Read ==
    /\ pc = "upload"
    /\ Utf8Decodable(file)
    /\ pc' = "loop"
    /\ i' = 1
    /\ current_id' = None
    /\ UNCHANGED <<file, data, prov, err, text, stripped>>

\* decoding raises: the handler reports the error, data is returned
ReadFail ==
    /\ pc = "upload"
    /\ ~Utf8Decodable(file)
    /\ err' = TRUE
    /\ pc' = "done"
    /\ UNCHANGED <<file, i, current_id, data, prov, text, stripped>>

IdLine ==
    /\ pc = "loop"
    /\ i <= Len(file)
    /\ Branch(current_id, file[i]) = "id"
    /\ current_id' = SetCurrentId(current_id, can_id_search(file[i]))
    /\ i' = i + 1
    /\ UNCHANGED <<file, pc, data, prov, err, text, stripped>>

BytesLine ==
    /\ pc = "loop"
    /\ i <= Len(file)
    /\ Branch(current_id, file[i]) = "bytes"
    /\ LET g1 == data_bytes_search(file[i]).g1
       IN /\ parse_bytes(g1).ok
          /\ data' = Put(data, current_id, DataBytesName, BytesEntry(g1))
          /\ prov' = Put(prov, current_id, DataBytesName, i)
    /\ i' = i + 1
    /\ UNCHANGED <<file, pc, current_id, err, text, stripped>>

\* int(b, 16) raises inside the comprehension, before data is touched; the
\* handler reports the error and the function returns data
BytesLineError ==
    /\ pc = "loop"
    /\ i <= Len(file)
    /\ Branch(current_id, file[i]) = "bytes"
    /\ ~parse_bytes(data_bytes_search(file[i]).g1).ok
    /\ err' = TRUE
    /\ pc' = "done"
    /\ UNCHANGED <<file, i, current_id, data, prov, text, stripped>>

MeasurementLine ==
    /\ pc = "loop"
    /\ i <= Len(file)
    /\ Branch(current_id, file[i]) = "meas"
    /\ LET m == measurement_search(file[i])
       IN /\ data' = Put(data, current_id, m.key, MeasEntry(m.value))
          /\ prov' = Put(prov, current_id, m.key, i)
    /\ i' = i + 1
    /\ UNCHANGED <<file, pc, current_id, err, text, stripped>>

SkipLine ==
    /\ pc = "loop"
    /\ i <= Len(file)
    /\ Branch(current_id, file[i]) = "skip"
    /\ i' = i + 1
    /\ UNCHANGED <<file, pc, current_id, data, prov, err, text, stripped>>

\* the loop is exhausted: return data
Return ==
    /\ pc = "loop"
    /\ i > Len(file)
    /\ pc' = "done"
    /\ UNCHANGED <<file, i, current_id, data, prov, err, text, stripped>>

Next ==
    \/ \E l \in LineSet : Upload(l)
    \/ Read
    \/ ReadFail
    \/ IdLine
    \/ BytesLine
    \/ BytesLineError
    \/ MeasurementLine
    \/ SkipLine
    \/ Return

Spec == Init /\ [][Next]_vars

(***************************************************************************)
(* The unit stripping step applied to every short text                     *)
(***************************************************************************)
StripStep(c) ==
    /\ Len(text) < MaxTextLen
    /\ text' = Append(text, c)
    /\ stripped' = strip_units(text')
    /\ UNCHANGED <<file, pc, i, current_id, data, prov, err>>

StripNext == \E c \in StripChars : StripStep(c)

StripSpec == Init /\ [][StripNext]_vars

(***************************************************************************)
(* Vocabulary of the properties, computed from the input alone             *)
(***************************************************************************)
Max(S) == CHOOSE x \in S : \A y \in S : x >= y

IdLinesBefore(k) == {j \in 1..(k - 1) : can_id_search(file[j]) # None}

\* the identifier declared by the last identifier line before line k
LastIdBefore(k) ==
    IF IdLinesBefore(k) = {} THEN None
    ELSE can_id_search(file[Max(IdLinesBefore(k))])

DeclaredIds == {can_id_search(file[k]) : k \in 1..Len(file)} \ {None}

\* line k is a byte-vector or measurement line read under an identifier
ProducesEntry(k) ==
    /\ can_id_search(file[k]) = None
    /\ LastIdBefore(k) # None
    /\ data_bytes_search(file[k]).matched \/ measurement_search(file[k]).matched

SeriesOf(d, id, key) ==
    IF id \in DOMAIN d /\ key \in DOMAIN d[id] THEN d[id][key] ELSE <<>>

Processed(k) == pc # "upload" /\ k < i

UnitTexts == {<<"A">>, <<"r", "p", "m">>, <<"d", "e", "g">>, <<"N", "m">>}

NoUnits(s) == \A u \in UnitTexts : ~Contains(s, u)

(***************************************************************************)
(* C1                                                                      *)
(***************************************************************************)
\* C1 as stated: after a run without error the keys of the Dataset are
\* exactly the identifiers captured by the identifier lines, an identifier
\* followed by no data line included.
C1_KeysAreDeclaredIds ==
    (pc = "done" /\ ~err) => DOMAIN data = DeclaredIds

\* C1 as amended: after a run without error the keys of the Dataset are
\* exactly the identifiers under which at least one byte-vector or
\* measurement line was read, and no key maps to an empty channel mapping.
C1_KeysAreIdsWithData ==
    (pc = "done" /\ ~err) =>
        /\ DOMAIN data = {LastIdBefore(k) : k \in {n \in 1..Len(file) : ProducesEntry(n)}}
        /\ \A id \in DOMAIN data : DOMAIN data[id] # {}

C1_Witness ==
    /\ pc = "done" /\ ~err
    /\ DOMAIN data # {}
    /\ DeclaredIds \ DOMAIN data # {}

(***************************************************************************)
(* C2                                                                      *)
(***************************************************************************)
\* C2: every entry of Dataset[I][m] was produced by a line that follows an
\* identifier line declaring I with no identifier line in between.
C2_NoLeakage ==
    /\ DOMAIN prov = DOMAIN data
    /\ \A id \in DOMAIN prov :
        /\ DOMAIN prov[id] = DOMAIN data[id]
        /\ \A key \in DOMAIN prov[id] :
            /\ Len(prov[id][key]) = Len(data[id][key])
            /\ \A n \in 1..Len(prov[id][key]) :
                /\ id # None
                /\ LastIdBefore(prov[id][key][n]) = id

C2_Witness ==
    \E id \in DOMAIN prov : \E key \in DOMAIN prov[id] :
        \E d \in 1..(prov[id][key][1] - 1) :
            can_id_search(file[d]) \notin {None, id}

(***************************************************************************)
(* C3                                                                      *)
(***************************************************************************)
\* C3: whenever extract_data hits an error the returned Dataset is empty.
C3_EmptyOnError ==
    (pc = "done" /\ err) => data = EmptyMap

(***************************************************************************)
(* C4                                                                      *)
(***************************************************************************)
\* C4: every entry under the reserved name is a sequence of integers and
\* every entry under another name is a number or a string.
C4_ChannelTyping ==
    \A id \in DOMAIN data : \A key \in DOMAIN data[id] :
        \A n \in 1..Len(data[id][key]) :
            LET x == data[id][key][n]
            IN IF key = DataBytesName
               THEN /\ x.kind = "bytes"
                    /\ \A k \in 1..Len(x.b) : x.b[k] \in Int
               ELSE x.kind \in {"num", "inf", "nan", "str"}

C4_Witness ==
    \E id \in DOMAIN data :
        /\ DataBytesName \in DOMAIN data[id]
        /\ \E key \in DOMAIN data[id] :
            key # DataBytesName /\ data[id][key][1].kind = "str"
        /\ \E key \in DOMAIN data[id] :
            key # DataBytesName /\ data[id][key][1].kind = "num"

(***************************************************************************)
(* C5                                                                      *)
(***************************************************************************)
\* C5: every integer stored in a byte vector is an unsigned byte.
C5_UnsignedBytes ==
    \A id \in DOMAIN data : \A key \in DOMAIN data[id] :
        \A n \in 1..Len(data[id][key]) :
            LET x == data[id][key][n]
            IN x.kind = "bytes" => \A k \in 1..Len(x.b) : x.b[k] \in 0..255

(***************************************************************************)
(* C6                                                                      *)
(***************************************************************************)
C6_Step ==
    (/\ pc = "loop"
     /\ i <= Len(file)
     /\ current_id = None
     /\ can_id_search(file[i]) = None)
    => /\ data' = data
       /\ err' = FALSE
       /\ pc' = "loop"
       /\ i' = i + 1
       /\ current_id' = None

\* C6: while no identifier line has been read, a line that is not an
\* identifier line leaves the Dataset unchanged and raises no error.
C6_DroppedBeforeFirstId == [][C6_Step]_vars

C6_Witness ==
    /\ ~err
    /\ \E k \in 1..Len(file) :
        /\ Processed(k) /\ file[k] = Line_BadHex /\ LastIdBefore(k) = None
    /\ \E k \in 1..Len(file) :
        /\ Processed(k) /\ LastIdBefore(k) = None
        /\ can_id_search(file[k]) = None
        /\ ~data_bytes_search(file[k]).matched
        /\ measurement_search(file[k]).matched
    /\ current_id # None

(***************************************************************************)
(* C7 (StripSpec)                                                          *)
(***************************************************************************)
\* C7 as stated: stripping a stripped text changes nothing, and a stripped
\* text contains none of the four unit texts.
C7_Idempotent ==
    /\ strip_units(stripped) = stripped
    /\ NoUnits(stripped)

\* C7 as amended: a stripped text never contains "A"; stripping it again
\* changes nothing exactly when it contains none of "rpm", "deg", "Nm".
C7_IdempotentWhenNoUnitLeft ==
    /\ ~Contains(stripped, <<"A">>)
    /\ Len(stripped) <= Len(text)
    /\ (strip_units(stripped) = stripped) <=> NoUnits(stripped)

C7_Witness ==
    /\ stripped # text
    /\ stripped # <<>>
    /\ ~NoUnits(stripped)

(***************************************************************************)
(* C8                                                                      *)
(***************************************************************************)
\* every series of d2 other than (id, key) is the same series of d1
OthersUnchanged(d1, d2, id, key) ==
    \A j \in DOMAIN d2 : \A k \in DOMAIN d2[j] :
        <<j, k>> # <<id, key>> =>
            j \in DOMAIN d1 /\ k \in DOMAIN d1[j] /\ d2[j][k] = d1[j][k]

NothingRemoved(d1, d2) ==
    \A j \in DOMAIN d1 :
        j \in DOMAIN d2 /\ \A k \in DOMAIN d1[j] : k \in DOMAIN d2[j]

C8_Step ==
    (/\ pc = "loop"
     /\ i <= Len(file)
     /\ current_id # None
     /\ can_id_search(file[i]) = None
     /\ ~data_bytes_search(file[i]).matched
     /\ measurement_search(file[i]).matched)
    => LET m == measurement_search(file[i])
           f == float_parse(strip_units(m.value))
           expected == IF f.ok THEN f.val ELSE [kind |-> "str", s |-> m.value]
       IN /\ err' = FALSE
          /\ pc' = "loop"
          /\ i' = i + 1
          /\ SeriesOf(data', current_id, m.key)
                 = Append(SeriesOf(data, current_id, m.key), expected)
          /\ OthersUnchanged(data, data', current_id, m.key)
          /\ NothingRemoved(data, data')

\* C8: a generic measurement line read under an identifier appends exactly
\* one entry to the identifier's series of the captured name: the parsed
\* number, or else the captured text as it was before stripping.
C8_OneEntryPerMeasurement == [][C8_Step]_vars

C8_Witness ==
    \E id \in DOMAIN data : \E key \in DOMAIN data[id] :
        /\ key # DataBytesName
        /\ \E n \in 1..Len(data[id][key]) :
            /\ data[id][key][n].kind = "str"
            /\ strip_units(data[id][key][n].s) # data[id][key][n].s
        /\ \E key2 \in DOMAIN data[id] : data[id][key2][1].kind = "num"

(***************************************************************************)
(* C9                                                                      *)
(***************************************************************************)
RECURSIVE SumLen(_, _)
SumLen(f, S) ==
    IF S = {} THEN 0
    ELSE LET k == CHOOSE x \in S : TRUE
         IN Len(f[k]) + SumLen(f, S \ {k})

RECURSIVE TotalEntries(_, _)
TotalEntries(d, S) ==
    IF S = {} THEN 0
    ELSE LET j == CHOOSE x \in S : TRUE
         IN SumLen(d[j], DOMAIN d[j]) + TotalEntries(d, S \ {j})

C9_Step ==
    (pc = "loop" /\ i <= Len(file)) =>
        /\ can_id_search(file[i]) # None =>
              /\ data' = data
              /\ current_id' = can_id_search(file[i])
              /\ err' = FALSE
        /\ (/\ can_id_search(file[i]) = None
            /\ data_bytes_search(file[i]).matched
            /\ current_id # None) =>
              /\ OthersUnchanged(data, data', current_id, DataBytesName)
              /\ \A n \in 1..Len(SeriesOf(data', current_id, DataBytesName)) :
                    SeriesOf(data', current_id, DataBytesName)[n].kind = "bytes"
        /\ TotalEntries(data', DOMAIN data') <= TotalEntries(data, DOMAIN data) + 1

\* C9: an identifier line only replaces the current identifier, whatever
\* else it contains; a line containing "Data Bytes:" read under an
\* identifier never produces a scalar entry; a line appends at most once.
C9_PatternPrecedence == [][C9_Step]_vars

C9_Witness ==
    /\ \E k \in 1..Len(file) :
        /\ Processed(k)
        /\ can_id_search(file[k]) # None
        /\ data_bytes_search(file[k]).matched
        /\ current_id = can_id_search(file[k])
    /\ current_id \in DOMAIN data
    /\ DOMAIN data[current_id] = {DataBytesName}

(***************************************************************************)
(* C10                                                                     *)
(***************************************************************************)
C10_Step ==
    \/ data' = data
    \/ \E id \in DOMAIN data' : \E key \in DOMAIN data'[id] :
        /\ id = current_id
        /\ Len(data'[id][key]) = Len(SeriesOf(data, id, key)) + 1
        /\ SubSeq(data'[id][key], 1, Len(data'[id][key]) - 1) = SeriesOf(data, id, key)
        /\ OthersUnchanged(data, data', id, key)
        /\ NothingRemoved(data, data')
        /\ prov'[id][key] = Append(SeriesOf(prov, id, key), i)
        /\ \A n \in 1..Len(SeriesOf(prov, id, key)) : SeriesOf(prov, id, key)[n] < i

\* C10: a step leaves the Dataset unchanged or appends one entry at the end
\* of one series of the current identifier; nothing stored is modified,
\* reordered or removed, so a series lists its entries in line order.
C10_AppendOnly == [][C10_Step]_vars

C10_Witness ==
    \E id \in DOMAIN prov : \E key \in DOMAIN prov[id] :
        /\ Len(prov[id][key]) >= 2
        /\ \E d \in (prov[id][key][1] + 1)..(prov[id][key][2] - 1) :
              can_id_search(file[d]) = id

====
